---- MODULE Spec2Model ----
(***************************************************************************)
(* Detection pipeline and latest-status aggregation of src/app.js:         *)
(* the model loader, POST /detect-image with its upload directory, GET     *)
(* /detect, the teacher dashboard and the CSV export over the Detection    *)
(* collection, and the session routes in front of them.                    *)
(***************************************************************************)
EXTENDS Integers, Sequences, FiniteSets, TLC

(* ------------------------------ bounds -------------------------------- *)
\* classification requests accepted in one run
MaxRequests == 2
\* clock ticks (milliseconds) that pass in one run
MaxClock == 1
\* probabilities are 0..MaxProb (fixed-point units)
MaxProb == 1
\* events persisted in the collection by earlier runs of the process
PriorEvents == 9

\* the slots of the requests that may be in flight at the same time
Procs == {1, 2}
Users == {"u1", "u2"}
Images == {"png", "garbage"}
\* output widths of the models that may be loaded: the two labels
Units == {2}

(* --------------------------- program constants ------------------------ *)
\* let model = null (falsy); a loaded handle is identified by the width
\* of its output layer, a positive number (truthy)
null == 0
\* .limit(10)
HistoryLimit == 10
\* the labels "uniform" and "not-uniform": the length decide expects
ExpectedLength == 2

VARIABLES
  loader,      \* position of the model loader IIFE
  model,       \* the global `model`
  now,         \* the clock, in ticks since process start
  log,         \* the Detection collection, in insertion order
  req,         \* the POST /detect-image requests in flight, per slot
  numTensors,  \* tensors outstanding in the tf engine (weights excluded)
  nreq,        \* classification requests accepted so far
  res,         \* the response sent by the last step
  alive,       \* whether the node process is running
  students,    \* the User collection's students, in natural order
  session,     \* req.session of the browser session
  disk,        \* public/uploads: the bytes stored under each file name
  file,        \* per slot, req.file.path and the bytes the client sent
  trail        \* history: what the session's requests so far amount to

\* the process and the web layer around the pipeline
site == <<alive, students, session, disk, file, trail>>

vars == <<loader, model, now, log, req, numTensors, nreq, res, site>>

(* ------------------------------ helpers ------------------------------- *)
Min(a, b) == IF a < b THEN a ELSE b

\* the values of a Float32Array returned by preds.dataSync(): index 0..n-1
Vectors(n) == [0 .. (n - 1) -> 0 .. MaxProb]
Length(data) == Cardinality(DOMAIN data)

(* --------------------------- decision rule ---------------------------- *)
\* Math.max(...data): left-to-right fold over the n >= 1 entries
RECURSIVE MathMax(_, _)
MathMax(data, n) ==
  IF n = 1 THEN data[0]
  ELSE LET m == MathMax(data, n - 1)
       IN IF data[n - 1] > m THEN data[n - 1] ELSE m

\* a scan from the high end, as lastIndexOf would do
RECURSIVE LastIndexOfFrom(_, _, _)
LastIndexOfFrom(data, x, i) ==
  IF i < 0 THEN -1
  ELSE IF data[i] = x THEN i
  ELSE LastIndexOfFrom(data, x, i - 1)

IndexOfLast(data, x) == LastIndexOfFrom(data, x, Length(data) - 1)

\* Array.prototype.indexOf: first index i, scanning up from 0, with
\* data[i] === x; -1 when there is none
RECURSIVE IndexOfFrom(_, _, _)
IndexOfFrom(data, x, i) ==
  IF i >= Length(data) THEN -1
  ELSE IF data[i] = x THEN i
  ELSE IndexOfFrom(data, x, i + 1)

IndexOf(data, x) == IndexOfFrom(data, x, 0)

\* const maxIdx = data.indexOf(Math.max(...data))
MaxIdx(data) == IndexOf(data, MathMax(data, Length(data)))

\* const label = maxIdx === 0 ? "uniform" : "not-uniform"
LabelOf(maxIdx) == IF maxIdx = 0 THEN "uniform" ELSE "not-uniform"

\* const confidence = data[maxIdx]
ConfidenceOf(data, maxIdx) == data[maxIdx]

IsCompliantAlways(label) == TRUE

\* isCompliant: label === "uniform"
IsCompliantOf(label) == label = "uniform"

(* ------------------------------ tensors ------------------------------- *)
\* the tensors of the preprocessing chain, named by the call that makes them;
\* "div" is the one bound to `tensor`
ChainTensors ==
  {"decodeImage", "resizeNearestNeighbor", "expandDims", "toFloat",
   "scalar", "div"}

\* `preds`, the result of model.predict(tensor)
PredTensors == {"predict"}

\* tf.dispose([tensor, preds])
Disposed == {"div", "predict"}

\* tf.node.decodeImage throws on bytes that are not an image
Decodable(image) == image = "png"

(* -------------------------- Detection store --------------------------- *)
CreatedAtClock(docs, t) == t

\* createdAt assigned by the store on insert: the clock, or one past the
\* last stored createdAt when the clock has not advanced beyond it
CreatedAt(docs, t) ==
  IF docs = <<>> \/ t > docs[Len(docs)].createdAt THEN t
  ELSE docs[Len(docs)].createdAt + 1

\* Detection.create(draft): the stored form of the draft
Stored(docs, t, draft) ==
  [_id |-> Len(docs) + 1,
   user |-> draft.user,
   label |-> draft.label,
   confidence |-> draft.confidence,
   isCompliant |-> draft.isCompliant,
   source |-> draft.source,
   createdAt |-> CreatedAt(docs, t)]

\* the events earlier runs left in the collection: PriorEvents uploads of u1,
\* one per tick, the last one tick before this run starts
PriorLog ==
  [i \in 1 .. PriorEvents |->
     [_id |-> i,
      user |-> "u1",
      label |-> LabelOf(i % 2),
      confidence |-> MaxProb,
      isCompliant |-> IsCompliantOf(LabelOf(i % 2)),
      source |-> "upload",
      createdAt |-> i - PriorEvents - 1]]

\* indices of S whose createdAt is the least of S
OldestOf(docs, S) ==
  {i \in S : \A j \in S : docs[i].createdAt <= docs[j].createdAt}

\* indices of S whose createdAt is the greatest of S: the documents that a
\* sort on {createdAt: -1} may put first (the order among equal keys is
\* left open by the store)
NewestOf(docs, S) ==
  {i \in S : \A j \in S : docs[j].createdAt <= docs[i].createdAt}

\* .sort({createdAt: -1}) / {$sort: {createdAt: -1}} over the documents with
\* index in S: every order the store may return
RECURSIVE SortDesc(_, _)
SortDesc(docs, S) ==
  IF S = {} THEN {<<>>}
  ELSE UNION {{<<docs[i]>> \o t : t \in SortDesc(docs, S \ {i})} :
               i \in NewestOf(docs, S)}

LimitNone(s, n) == s

\* .limit(n)
Limit(s, n) == SubSeq(s, 1, Min(n, Len(s)))

\* Detection.find({user}).sort({createdAt: -1}).limit(10).lean()
FindRecent(docs, u) ==
  {Limit(s, HistoryLimit) :
     s \in SortDesc(docs, {i \in DOMAIN docs : docs[i].user = u})}

\* {$group: {_id: "$user", lastIsCompliant: {$first: "$isCompliant"},
\*           lastAt: {$first: "$createdAt"}}} over a sorted sequence
GroupFirst(s) ==
  {[_id |-> s[i].user,
    lastIsCompliant |-> s[i].isCompliant,
    lastAt |-> s[i].createdAt] :
     i \in {k \in DOMAIN s : \A j \in 1 .. (k - 1) : s[j].user # s[k].user}}

\* Detection.aggregate([{$sort}, {$group}]): every result the store may give
Aggregate(docs) == {GroupFirst(s) : s \in SortDesc(docs, DOMAIN docs)}

(* ------------------------------ report -------------------------------- *)
\* a text is a sequence of symbols: COMMA and QUOTE are the characters ","
\* and '"', every other symbol stands for a run of other characters
COMMA == ","
QUOTE == "\""

\* "Username,Email,Department,Year,Division,Uniform Status,Last Checked"
HeaderFields ==
  <<"Username", "Email", "Department", "Year", "Division", "Uniform Status",
    "Last Checked">>

Header ==
  <<"Username", COMMA, "Email", COMMA, "Department", COMMA, "Year", COMMA,
    "Division", COMMA, "Uniform Status", COMMA, "Last Checked">>

\* the fields of a student that POST /signup takes from the form
FieldNames == {"username", "email", "department", "year", "division"}

\* a student whose form fields are plain text
Plain(id) ==
  [_id |-> id, username |-> <<id>>, email |-> <<"e">>, department |-> <<"d">>,
   year |-> <<"y">>, division |-> <<"v">>]

\* `${date}`: the text of a Date, which holds neither a comma nor a quote
DateText(t) == <<ToString(t)>>

\* detections.forEach((d) => (map[d._id.toString()] = d)); map[id]: the set
\* is empty where map[id] is undefined
MapOf(detections, id) == {g \in detections : g._id = id}

StatusTextNoDataOk(infos) ==
  IF infos = {} THEN <<"Uniform OK">>
  ELSE IF \E g \in infos : g.lastIsCompliant THEN <<"Uniform OK">>
  ELSE <<"Not in Uniform">>

\* info ? (info.lastIsCompliant ? "Uniform OK" : "Not in Uniform") : "No Data"
StatusText(infos) ==
  IF infos = {} THEN <<"No Data">>
  ELSE IF \E g \in infos : g.lastIsCompliant THEN <<"Uniform OK">>
  ELSE <<"Not in Uniform">>

\* `${info?.lastAt || ""}`
LastChecked(infos) ==
  IF infos = {} THEN <<>>
  ELSE DateText((CHOOSE g \in infos : TRUE).lastAt)

\* the seven values interpolated into the line of student s
Row(s, detections) ==
  LET info == MapOf(detections, s._id)
  IN <<s.username, s.email, s.department, s.year, s.division,
       StatusText(info), LastChecked(info)>>

\* students.forEach: one row per student, in the order of the query result
ReportRows(studs, detections) ==
  [k \in 1 .. Len(studs) |-> Row(studs[k], detections)]

\* `"${f1}","${f2}",...,"${f7}"`: each value between two quotes, the values
\* separated by commas
RECURSIVE Line(_)
Line(row) ==
  IF row = <<>> THEN <<>>
  ELSE <<QUOTE>> \o Head(row) \o <<QUOTE>>
       \o (IF Len(row) > 1 THEN <<COMMA>> ELSE <<>>) \o Line(Tail(row))

\* csv: the header, then one line per row (the "\n" ends each line)
Csv(rows) == <<Header>> \o [k \in 1 .. Len(rows) |-> Line(rows[k])]

\* the students registered before this run
Roster == <<Plain("u1"), Plain("u2")>>

(* ------------------------------ state --------------------------------- *)
NoData == [i \in {0} |-> 0]

Idle ==
  [pc |-> "idle", user |-> "u1", image |-> "png", data |-> NoData,
   maxIdx |-> 0, label |-> "", confidence |-> 0, live |-> {},
   answer |-> "pending"]

NoRes ==
  [op |-> "none", user |-> "", history |-> <<>>, detections |-> {},
   rows |-> <<>>, body |-> <<>>]

\* no user in the session
NoUser == ""
NoSession == [user |-> NoUser, isTeacher |-> FALSE]

\* the history of a session without requests: nobody has logged in, no
\* teacher-login has succeeded (granted), none has been tried (last)
NoTrail == [user |-> NoUser, granted |-> FALSE, last |-> "none"]

\* no file under a name, no upload in a slot
NoFile == "none"
NoUpload == [path |-> -1, sent |-> NoFile]

Terminal ==
  {"notReady", "decodeError", "inferenceError", "storeError", "aborted", "ok"}

\* what the handler itself has sent when it ends at pc: the 500 of
\* `if (!model)`, the res.json of the last line, nothing to a client that has
\* gone, and nothing yet where it was left by an exception
AnswerAt(pc) ==
  CASE pc = "notReady" -> "json500"
    [] pc = "ok" -> "json200"
    [] pc = "aborted" -> "none"
    [] OTHER -> "pending"

\* a request that has ended at pc: its locals are gone, the tensors it has
\* not disposed of stay allocated
Ended(pc, live) ==
  [Idle EXCEPT !.pc = pc, !.live = live, !.answer = AnswerAt(pc)]

Init ==
  /\ loader = "NOT_LOADED"
  /\ model = null
  /\ now = 0
  /\ log = PriorLog
  /\ req = [p \in Procs |-> Idle]
  /\ numTensors = 0
  /\ nreq = 0
  /\ res = NoRes
  /\ alive = TRUE
  /\ students = Roster
  /\ session = NoSession
  /\ disk = [t \in 0 .. MaxClock |-> NoFile]
  /\ file = [p \in Procs |-> NoUpload]
  /\ trail = NoTrail

\* app.listen runs after the loader IIFE has started
Listening == alive /\ loader # "NOT_LOADED"

(* --------------------------- model loader ----------------------------- *)
\* the IIFE runs up to `await tf.loadLayersModel(modelPath)`
BeginLoad ==
  /\ alive
  /\ loader = "NOT_LOADED"
  /\ loader' = "LOADING"
  /\ res' = NoRes
  /\ UNCHANGED <<model, now, log, req, numTensors, nreq>>
  /\ UNCHANGED site

\* model = await tf.loadLayersModel(modelPath)
LoadSucceed(units) ==
  /\ alive
  /\ loader = "LOADING"
  /\ loader' = "READY"
  /\ model' = units
  /\ res' = NoRes
  /\ UNCHANGED <<now, log, req, numTensors, nreq>>
  /\ UNCHANGED site

\* catch (err): the error is logged, `model` stays null
LoadFail ==
  /\ alive
  /\ loader = "LOADING"
  /\ loader' = "FAILED"
  /\ res' = NoRes
  /\ UNCHANGED <<model, now, log, req, numTensors, nreq>>
  /\ UNCHANGED site

(* ------------------------------ clock --------------------------------- *)
Tick ==
  /\ now < MaxClock
  /\ now' = now + 1
  /\ res' = NoRes
  /\ UNCHANGED <<loader, model, log, req, numTensors, nreq>>
  /\ UNCHANGED site

(* ------------------------- POST /detect-image ------------------------- *)
\* requireLogin has passed for user u and multer starts to receive the file;
\* the request takes the first slot that holds no request in flight
Upload(p, u) ==
  /\ Listening
  /\ nreq < MaxRequests
  /\ req[p].pc \in {"idle"} \cup Terminal
  /\ \A q \in Procs : q < p => req[q].pc \notin {"idle"} \cup Terminal
  /\ req' = [req EXCEPT ![p] = [Idle EXCEPT !.pc = "uploading", !.user = u]]
  /\ nreq' = nreq + 1
  /\ res' = NoRes
  /\ UNCHANGED <<loader, model, now, log, numTensors>>
  /\ UNCHANGED site

\* the client disconnects during the upload: multer fails the request and the
\* route handler never runs
Abort(p) ==
  /\ alive
  /\ req[p].pc = "uploading"
  /\ req' = [req EXCEPT ![p] = Ended("aborted", {})]
  /\ res' = NoRes
  /\ UNCHANGED <<loader, model, now, log, numTensors, nreq>>
  /\ UNCHANGED site

HandlerPcUnguarded(m, image, fault) ==
  IF ~Decodable(image) THEN "decodeError"
  ELSE IF fault THEN "inferenceError"
  ELSE "creating"

HandlerPcCreateAnyway(m, image, fault) ==
  IF m = null THEN "notReady"
  ELSE IF fault THEN "inferenceError"
  ELSE "creating"

\* where the synchronous part of the handler ends: the 500 of `if (!model)`,
\* a throw of decodeImage, a throw of model.predict, or the await of
\* Detection.create
HandlerPc(m, image, fault) ==
  IF m = null THEN "notReady"
  ELSE IF ~Decodable(image) THEN "decodeError"
  ELSE IF fault THEN "inferenceError"
  ELSE "creating"

\* the tensors the synchronous part has allocated when it ends at pc
Allocated(pc) ==
  CASE pc = "creating" -> ChainTensors \cup PredTensors
    [] pc = "inferenceError" -> ChainTensors
    [] OTHER -> {}

\* the handler from `if (!model)` to the call of Detection.create; image is
\* what fs.readFileSync returns, data what preds.dataSync() returns, fault
\* whether model.predict throws
DetectImage(p, image, data, fault) ==
  /\ alive
  /\ req[p].pc = "uploading"
  /\ LET pc == HandlerPc(model, image, fault)
         maxIdx == MaxIdx(data)
     IN /\ req' = [req EXCEPT ![p] =
                     IF pc = "creating"
                     THEN [@ EXCEPT !.pc = pc,
                                    !.image = image,
                                    !.data = data,
                                    !.maxIdx = maxIdx,
                                    !.label = LabelOf(maxIdx),
                                    !.confidence = ConfidenceOf(data, maxIdx),
                                    !.live = Allocated(pc)]
                     ELSE Ended(pc, Allocated(pc))]
        /\ numTensors' = numTensors + Cardinality(Allocated(pc))
  /\ res' = NoRes
  /\ UNCHANGED <<loader, model, now, log, nreq>>
  /\ UNCHANGED site

\* the argument of Detection.create
Draft(r) ==
  [user |-> r.user,
   label |-> r.label,
   confidence |-> r.confidence,
   isCompliant |-> IsCompliantOf(r.label),
   source |-> "upload"]

\* an upsert keyed on the subject: the subject's newest event is overwritten
CreateOkUpsert(p) ==
  /\ alive
  /\ req[p].pc = "creating"
  /\ log' = IF log # <<>> /\ log[Len(log)].user = req[p].user
            THEN [log EXCEPT ![Len(log)] =
                    [Stored(log, now, Draft(req[p])) EXCEPT !._id = Len(log)]]
            ELSE Append(log, Stored(log, now, Draft(req[p])))
  /\ req' = [req EXCEPT ![p].pc = "created"]
  /\ res' = NoRes
  /\ UNCHANGED <<loader, model, now, numTensors, nreq>>
  /\ UNCHANGED site

\* an insert that is sent again after a slow acknowledgement
CreateOkTwice(p) ==
  /\ alive
  /\ req[p].pc = "creating"
  /\ log' = LET once == Append(log, Stored(log, now, Draft(req[p])))
            IN Append(once, Stored(once, now, Draft(req[p])))
  /\ req' = [req EXCEPT ![p].pc = "created"]
  /\ res' = NoRes
  /\ UNCHANGED <<loader, model, now, numTensors, nreq>>
  /\ UNCHANGED site

\* the store inserts the document and Detection.create resolves
CreateOk(p) ==
  /\ alive
  /\ req[p].pc = "creating"
  /\ log' = Append(log, Stored(log, now, Draft(req[p])))
  /\ req' = [req EXCEPT ![p].pc = "created"]
  /\ res' = NoRes
  /\ UNCHANGED <<loader, model, now, numTensors, nreq>>
  /\ UNCHANGED site

\* the store fails and Detection.create rejects: the handler is left by the
\* exception
CreateFail(p) ==
  /\ alive
  /\ req[p].pc = "creating"
  /\ req' = [req EXCEPT ![p] = Ended("storeError", req[p].live)]
  /\ res' = NoRes
  /\ UNCHANGED <<loader, model, now, log, numTensors, nreq>>
  /\ UNCHANGED site

RespondDisposeModel(p) ==
  /\ alive
  /\ req[p].pc = "created"
  /\ req' = [req EXCEPT ![p] = Ended("ok", req[p].live \ Disposed)]
  /\ numTensors' = numTensors - Cardinality(req[p].live \cap Disposed)
  /\ model' = null
  /\ res' = [NoRes EXCEPT !.op = "detected", !.user = req[p].user,
                          !.body = <<req[p].label, req[p].confidence>>]
  /\ UNCHANGED <<loader, now, log, nreq>>
  /\ UNCHANGED site

\* tf.dispose([tensor, preds]); res.json({label, confidence})
Respond(p) ==
  /\ alive
  /\ req[p].pc = "created"
  /\ req' = [req EXCEPT ![p] = Ended("ok", req[p].live \ Disposed)]
  /\ numTensors' = numTensors - Cardinality(req[p].live \cap Disposed)
  /\ res' = [NoRes EXCEPT !.op = "detected", !.user = req[p].user,
                          !.body = <<req[p].label, req[p].confidence>>]
  /\ UNCHANGED <<loader, model, now, log, nreq>>
  /\ UNCHANGED site

(* ----------------------------- read routes ---------------------------- *)
\* a readiness check placed in front of every route
GetDetectNeedsModel(u) ==
  /\ Listening
  /\ model # null
  /\ \E h \in FindRecent(log, u) :
       res' = [NoRes EXCEPT !.op = "history", !.user = u, !.history = h]
  /\ UNCHANGED <<loader, model, now, log, req, numTensors, nreq>>
  /\ UNCHANGED site

\* GET /detect of a logged-in user u
GetDetect(u) ==
  /\ Listening
  /\ \E h \in FindRecent(log, u) :
       res' = [NoRes EXCEPT !.op = "history", !.user = u, !.history = h]
  /\ UNCHANGED <<loader, model, now, log, req, numTensors, nreq>>
  /\ UNCHANGED site

\* GET /teacher/students: the aggregation behind uniformMap
Dashboard ==
  /\ Listening
  /\ \E d \in Aggregate(log) :
       res' = [NoRes EXCEPT !.op = "dashboard", !.detections = d]
  /\ UNCHANGED <<loader, model, now, log, req, numTensors, nreq>>
  /\ UNCHANGED site

\* GET /teacher/students/export: the aggregation behind map, the rows and
\* the csv that is sent
Export ==
  /\ Listening
  /\ \E d \in Aggregate(log) :
       res' = [NoRes EXCEPT !.op = "export", !.detections = d,
                            !.rows = ReportRows(students, d),
                            !.body = Csv(ReportRows(students, d))]
  /\ UNCHANGED <<loader, model, now, log, req, numTensors, nreq>>
  /\ UNCHANGED site

(* --------------------------- specification ---------------------------- *)
\* the model loader, the clock and POST /detect-image with its requests in
\* the slots P
Pipeline(P) ==
  \/ BeginLoad
  \/ \E units \in Units : LoadSucceed(units)
  \/ LoadFail
  \/ Tick
  \/ \E p \in P, u \in Users : Upload(p, u)
  \/ \E p \in P : Abort(p)
  \/ \E p \in P, image \in Images, fault \in BOOLEAN :
       \E data \in Vectors(IF model = null THEN 1 ELSE model) :
         DetectImage(p, image, data, fault)
  \/ \E p \in P : CreateOk(p)
  \/ \E p \in P : CreateFail(p)
  \/ \E p \in P : Respond(p)

\* the read routes
NextReads ==
  \/ \E u \in Users : GetDetect(u)
  \/ Dashboard
  \/ Export

NextPipeline == Pipeline(Procs)

Next == NextPipeline \/ NextReads

\* classification requests handled one at a time (in slot 1), with the read
\* routes
NextSerial == Pipeline({1}) \/ NextReads

Spec == Init /\ [][Next]_vars

\* the pipeline alone: the read routes write nothing but their response
SpecPipeline == Init /\ [][NextPipeline]_vars

\* the read routes over the collections that any sequence of appends leaves
SpecSerial == Init /\ [][NextSerial]_vars

(* ------------------------ failures nobody catches --------------------- *)
\* the handlers of POST /detect-image and of the read routes are async
\* functions without try/catch; what becomes of the rejection of such a
\* handler's promise is fixed by the installed router and runtime: a router
\* that forwards rejections answers 500 from its default error handler; one
\* that drops the promise leaves the request without an answer, and the
\* runtime then warns or ends the process
Rejections == {"error500", "none", "exit"}

Thrown == {"decodeError", "inferenceError", "storeError"}

\* the rejection of the handler's promise of the request in slot p
Unhandled(p, outcome) ==
  /\ alive
  /\ req[p].pc \in Thrown
  /\ req[p].answer = "pending"
  /\ req' = [req EXCEPT ![p].answer = outcome]
  /\ alive' = (outcome # "exit")
  /\ res' = NoRes
  /\ UNCHANGED <<loader, model, now, log, numTensors, nreq>>
  /\ UNCHANGED <<students, session, disk, file, trail>>

\* Detection.find / Detection.aggregate / User.find rejects in a read route
QueryFail(route, outcome) ==
  /\ Listening
  /\ res' = [NoRes EXCEPT !.op = "queryFailed", !.user = route,
                          !.body = <<outcome>>]
  /\ alive' = (outcome # "exit")
  /\ UNCHANGED <<loader, model, now, log, req, numTensors, nreq>>
  /\ UNCHANGED <<students, session, disk, file, trail>>

\* the pipeline with the failures of the store and what becomes of them
NextFaults ==
  \/ NextPipeline
  \/ \E p \in Procs, outcome \in Rejections : Unhandled(p, outcome)
  \/ \E route \in {"history", "dashboard", "export"}, outcome \in Rejections :
       QueryFail(route, outcome)

SpecFaults == Init /\ [][NextFaults]_vars

(* The pipeline behind a model file whose output layer does not have the    *)
(* two units of the label table.                                            *)
WrongUnits == {1, 3}

NextDecide ==
  \/ NextPipeline
  \/ \E units \in WrongUnits : LoadSucceed(units)

SpecDecide == Init /\ [][NextDecide]_vars

(* -------------------------- upload directory ------------------------- *)
\* filename: Date.now() + path.extname(file.originalname); the uploads here
\* have one extension, so the name is the time in milliseconds
FileName(t) == t

\* upload.single("image"): multer stores the bytes the client of slot p sends
\* under the name made from the current time, over whatever that name holds
StoreFile(p, image) ==
  /\ alive
  /\ req[p].pc = "uploading"
  /\ file[p] = NoUpload
  /\ file' = [file EXCEPT ![p] = [path |-> FileName(now), sent |-> image]]
  /\ disk' = [disk EXCEPT ![FileName(now)] = image]
  /\ res' = NoRes
  /\ UNCHANGED <<loader, model, now, log, req, numTensors, nreq>>
  /\ UNCHANGED <<alive, students, session, trail>>

\* the pipeline with the upload directory: each slot serves one request, and
\* the handler reads the file at req.file.path
NextUploads ==
  \/ BeginLoad
  \/ \E units \in Units : LoadSucceed(units)
  \/ LoadFail
  \/ Tick
  \/ \E p \in Procs, u \in Users : file[p] = NoUpload /\ Upload(p, u)
  \/ \E p \in Procs, image \in Images : StoreFile(p, image)
  \/ \E p \in Procs, fault \in BOOLEAN :
       \E data \in Vectors(IF model = null THEN 1 ELSE model) :
         /\ file[p] # NoUpload
         /\ DetectImage(p, disk[file[p].path], data, fault)
  \/ \E p \in Procs : CreateOk(p)
  \/ \E p \in Procs : CreateFail(p)
  \/ \E p \in Procs : Respond(p)

SpecUploads == Init /\ [][NextUploads]_vars

(* ------------------------------ sessions ------------------------------ *)
Registered(studs) == {studs[k]._id : k \in DOMAIN studs}

\* res.redirect(to), res.render(view)
Redirect(to) == [NoRes EXCEPT !.op = "redirect", !.body = <<to>>]
Render(view) == [NoRes EXCEPT !.op = "render", !.body = <<view>>]

\* POST /signup with the username u: User.create resolves (ok, and only for
\* a username not yet taken) or rejects
Signup(u, ok) ==
  /\ Listening
  /\ IF ok /\ u \notin Registered(students)
     THEN /\ students' = Append(students, Plain(u))
          /\ session' = [session EXCEPT !.user = u]
          /\ trail' = [trail EXCEPT !.user = u]
          /\ res' = Redirect("/detect")
     ELSE /\ res' = Render("users/signup")
          /\ UNCHANGED <<students, session, trail>>
  /\ UNCHANGED <<loader, model, now, log, req, numTensors, nreq>>
  /\ UNCHANGED <<alive, disk, file>>

\* POST /login as u: User.findOne finds the user (ok, and only a registered
\* one) or does not
Login(u, ok) ==
  /\ Listening
  /\ IF ok /\ u \in Registered(students)
     THEN /\ session' = [session EXCEPT !.user = u]
          /\ trail' = [trail EXCEPT !.user = u]
          /\ res' = Redirect("/detect")
     ELSE /\ res' = Render("users/login")
          /\ UNCHANGED <<session, trail>>
  /\ UNCHANGED <<loader, model, now, log, req, numTensors, nreq>>
  /\ UNCHANGED <<alive, students, disk, file>>

\* POST /logout: req.session.destroy
Logout ==
  /\ Listening
  /\ session' = NoSession
  /\ trail' = NoTrail
  /\ res' = Redirect("/")
  /\ UNCHANGED <<loader, model, now, log, req, numTensors, nreq>>
  /\ UNCHANGED <<alive, students, disk, file>>

\* POST /teacher-login with matching (ok) or other credentials
TeacherLogin(ok) ==
  /\ Listening
  /\ IF ok
     THEN /\ session' = [session EXCEPT !.isTeacher = TRUE]
          /\ trail' = [trail EXCEPT !.granted = TRUE, !.last = "ok"]
          /\ res' = Redirect("/teacher/students")
     ELSE /\ session' = session
          /\ trail' = [trail EXCEPT !.last = "failed"]
          /\ res' = Render("users/teacher-login")
  /\ UNCHANGED <<loader, model, now, log, req, numTensors, nreq>>
  /\ UNCHANGED <<alive, students, disk, file>>

TeacherLogoutKeepsFlag ==
  /\ Listening
  /\ session' = session
  /\ trail' = [trail EXCEPT !.granted = FALSE, !.last = "none"]
  /\ res' = Redirect("/")
  /\ UNCHANGED <<loader, model, now, log, req, numTensors, nreq>>
  /\ UNCHANGED <<alive, students, disk, file>>

\* POST /teacher-logout
TeacherLogout ==
  /\ Listening
  /\ session' = [session EXCEPT !.isTeacher = FALSE]
  /\ trail' = [trail EXCEPT !.granted = FALSE, !.last = "none"]
  /\ res' = Redirect("/")
  /\ UNCHANGED <<loader, model, now, log, req, numTensors, nreq>>
  /\ UNCHANGED <<alive, students, disk, file>>

\* requireLogin / requireTeacher call next()
LoggedIn == session.user # NoUser
IsTeacher == session.isTeacher

\* requireLogin answers a request without a logged-in user
RequireLogin ==
  /\ Listening
  /\ ~LoggedIn
  /\ res' = Redirect("/login")
  /\ UNCHANGED <<loader, model, now, log, req, numTensors, nreq>>
  /\ UNCHANGED site

\* requireTeacher answers a request of a session that is not a teacher's
RequireTeacher ==
  /\ Listening
  /\ ~IsTeacher
  /\ res' = Redirect("/teacher-login")
  /\ UNCHANGED <<loader, model, now, log, req, numTensors, nreq>>
  /\ UNCHANGED site

\* a new database: u1 alone is registered, nothing has been classified
InitSession ==
  /\ loader = "NOT_LOADED"
  /\ model = null
  /\ now = 0
  /\ log = <<>>
  /\ req = [p \in Procs |-> Idle]
  /\ numTensors = 0
  /\ nreq = 0
  /\ res = NoRes
  /\ alive = TRUE
  /\ students = <<Plain("u1")>>
  /\ session = NoSession
  /\ disk = [t \in 0 .. MaxClock |-> NoFile]
  /\ file = [p \in Procs |-> NoUpload]
  /\ trail = NoTrail

\* one browser session in front of the routes, its classification requests
\* handled one at a time
NextSession ==
  \/ BeginLoad
  \/ \E units \in Units : LoadSucceed(units)
  \/ LoadFail
  \/ \E u \in Users, ok \in BOOLEAN : Signup(u, ok)
  \/ \E u \in Users, ok \in BOOLEAN : Login(u, ok)
  \/ Logout
  \/ \E ok \in BOOLEAN : TeacherLogin(ok)
  \/ TeacherLogout
  \/ RequireLogin
  \/ RequireTeacher
  \/ LoggedIn /\ Upload(1, session.user)
  \/ \E image \in Images, fault \in BOOLEAN :
       \E data \in Vectors(IF model = null THEN 1 ELSE model) :
         DetectImage(1, image, data, fault)
  \/ CreateOk(1)
  \/ CreateFail(1)
  \/ Respond(1)
  \/ LoggedIn /\ GetDetect(session.user)
  \/ IsTeacher /\ Dashboard
  \/ IsTeacher /\ Export

SpecSession == InitSession /\ [][NextSession]_vars

(* A collection that holds two events of one subject with the same          *)
(* createdAt, the case the aggregation's tie-break is specified for.        *)
TiedLogs ==
  {[i \in 1 .. 2 |->
      [_id |-> i,
       user |-> "u1",
       label |-> LabelOf((i + k) % 2),
       confidence |-> MaxProb,
       isCompliant |-> IsCompliantOf(LabelOf((i + k) % 2)),
       source |-> "upload",
       createdAt |-> 0]] : k \in {0, 1}}

InitAgg ==
  /\ loader = "NOT_LOADED"
  /\ model = null
  /\ now = 0
  /\ log \in TiedLogs
  /\ req = [p \in Procs |-> Idle]
  /\ numTensors = 0
  /\ nreq = 0
  /\ res = NoRes
  /\ alive = TRUE
  /\ students = Roster
  /\ session = NoSession
  /\ disk = [t \in 0 .. MaxClock |-> NoFile]
  /\ file = [p \in Procs |-> NoUpload]
  /\ trail = NoTrail

SpecAgg == InitAgg /\ [][Next]_vars

(* The export over the rosters and collections it may meet: up to two      *)
(* students, in either order, one form field of each holding a text with   *)
(* commas or quotes; a collection in which u1 has no event, a compliant     *)
(* last event or a non-compliant last event, and u2 has none.               *)
Texts ==
  {<<"a">>, <<"a", COMMA, "b">>, <<"a", QUOTE>>, <<QUOTE, COMMA, QUOTE>>}

Rosters ==
  LET one(id) == {[Plain(id) EXCEPT ![f] = t] : f \in FieldNames, t \in Texts}
  IN {<<>>}
     \cup {<<s>> : s \in one("u1") \cup one("u2")}
     \cup {<<s, t>> : s \in one("u1"), t \in one("u2")}
     \cup {<<t, s>> : s \in one("u1"), t \in one("u2")}

ReportLogs == {SubSeq(PriorLog, 1, n) : n \in {0, PriorEvents - 1, PriorEvents}}

InitReport ==
  /\ loader = "LOADING"
  /\ model = null
  /\ now = 0
  /\ log \in ReportLogs
  /\ req = [p \in Procs |-> Idle]
  /\ numTensors = 0
  /\ nreq = 0
  /\ res = NoRes
  /\ alive = TRUE
  /\ students \in Rosters
  /\ session = NoSession
  /\ disk = [t \in 0 .. MaxClock |-> NoFile]
  /\ file = [p \in Procs |-> NoUpload]
  /\ trail = NoTrail

NextReport == Dashboard \/ Export

SpecReport == InitReport /\ [][NextReport]_vars

(* ============================== claims ================================ *)
Proceeded == {"decodeError", "inferenceError", "creating"}

\* C1: a request whose handler runs while the load has not completed (or has
\* failed) is rejected as not ready, allocates nothing and appends nothing;
\* one whose handler runs after a successful load gets past the guard; and
\* a failed load stays failed, with no model, forever.
C1_ReadinessGating ==
  [][/\ \A p \in Procs :
          (req[p].pc = "uploading" /\ req'[p].pc \notin {"uploading", "aborted"})
          => /\ loader # "READY"
                => /\ req'[p].pc = "notReady"
                   /\ req'[p].live = {}
                   /\ numTensors' = numTensors
                   /\ log' = log
             /\ loader = "READY" => req'[p].pc \in Proceeded
     /\ loader = "FAILED" => (loader' = "FAILED" /\ model' = null)]_vars

C1_Witness ==
  /\ loader = "READY"
  /\ \E p, q \in Procs : req[p].pc = "notReady" /\ req[q].pc = "creating"

LoaderEdges ==
  {<<"NOT_LOADED", "LOADING">>, <<"LOADING", "READY">>, <<"LOADING", "FAILED">>}

\* C2: the loader moves only along NOT_LOADED -> LOADING -> READY | FAILED,
\* a terminal state is never left, `model` is written once, by the loader's
\* step LOADING -> READY, and no step of a request changes it.
C2_OneShotModelState ==
  [][/\ loader' # loader => <<loader, loader'>> \in LoaderEdges
     /\ model' # model
          => /\ loader = "LOADING" /\ loader' = "READY"
             /\ model = null /\ model' # null
             /\ req' = req
     /\ (model # null) <=> (loader = "READY")]_vars

C2_Witness ==
  /\ loader = "READY"
  /\ model # null
  /\ \E p, q \in Procs : req[p].pc = "ok" /\ req[q].pc = "created"

NoDecision == {"notReady", "decodeError", "inferenceError", "aborted"}

\* C3: the collection changes only by the insert of a request that has a
\* loaded model, a decodable image and a computed label and confidence, and
\* the insert stores exactly that decision; a request that ends as not ready,
\* in a decode or inference failure, or aborted, ends straight from the
\* upload, in a step that leaves the collection as it was.
C3_NoEventWithoutDecision ==
  [][/\ log' # log
          => \E p \in Procs :
               /\ req[p].pc = "creating" /\ req'[p].pc = "created"
               /\ model # null
               /\ Decodable(req[p].image)
               /\ req[p].maxIdx \in DOMAIN req[p].data
               /\ req[p].label = LabelOf(req[p].maxIdx)
               /\ req[p].confidence = req[p].data[req[p].maxIdx]
               /\ Len(log') = Len(log) + 1
               /\ SubSeq(log', 1, Len(log)) = log
               /\ log'[Len(log')].user = req[p].user
               /\ log'[Len(log')].label = req[p].label
               /\ log'[Len(log')].confidence = req[p].confidence
     /\ \A p \in Procs :
          (req'[p].pc \in NoDecision /\ req[p].pc # req'[p].pc)
          => (req[p].pc = "uploading" /\ log' = log)]_vars

C3_Witness ==
  /\ Len(log) = PriorEvents + 1
  /\ \E p, q \in Procs : req[p].pc = "inferenceError" /\ req[q].pc = "created"

\* C4: when every request has ended, no tensor allocated by a request is
\* still outstanding.
C4_AllTensorsReleased ==
  (\A p \in Procs : req[p].pc \in Terminal \cup {"idle"}) => numTensors = 0

Decided == {"creating", "created"}

\* C5: the selected index is the lowest index that holds the maximum entry
\* (index 0 on [0.5, 0.5]), index 0 gives "uniform" and any other index
\* "not-uniform", and the confidence is the entry at the selected index.
C5_DecisionRule ==
  \A p \in Procs :
    req[p].pc \in Decided
    => LET data == req[p].data
           k == req[p].maxIdx
       IN /\ k \in DOMAIN data
          /\ \A j \in DOMAIN data : data[j] <= data[k]
          /\ \A j \in DOMAIN data : j < k => data[j] < data[k]
          /\ (k = 0) <=> (req[p].label = "uniform")
          /\ (k # 0) <=> (req[p].label = "not-uniform")
          /\ req[p].confidence = data[k]

C5_Witness ==
  \E p, q \in Procs :
    /\ req[p].pc = "creating" /\ Length(req[p].data) = 2
    /\ req[p].data[0] = req[p].data[1] /\ req[p].label = "uniform"
    /\ req[q].pc = "creating" /\ Length(req[q].data) = 2
    /\ req[q].data[0] < req[q].data[1] /\ req[q].label = "not-uniform"

\* C6: every stored event has isCompliant = TRUE exactly when its label is
\* "uniform".
C6_IsCompliantMatchesLabel ==
  \A i \in DOMAIN log : log[i].isCompliant <=> (log[i].label = "uniform")

C6_Witness ==
  \E i, j \in (PriorEvents + 1) .. Len(log) :
    /\ log[i].isCompliant /\ log[i].label = "uniform"
    /\ ~log[j].isCompliant /\ log[j].label = "not-uniform"

EventsOf(docs, u) == {i \in DOMAIN docs : docs[i].user = u}

AggregateOK(d, docs) ==
  \A u \in Users :
    LET mine == EventsOf(docs, u)
        groups == {g \in d : g._id = u}
    IN /\ mine = {} => groups = {}
       /\ mine # {}
            => /\ Cardinality(groups) = 1
               /\ \A g \in groups :
                    \E i \in mine :
                      /\ \A j \in mine : docs[j].createdAt <= docs[i].createdAt
                      /\ g.lastIsCompliant = docs[i].isCompliant
                      /\ g.lastAt = docs[i].createdAt

\* C7: every aggregation answered by the dashboard or the export has no
\* entry for a subject without events and, for a subject with events,
\* exactly one entry, holding lastIsCompliant and lastAt of that subject's
\* event with the greatest createdAt.
C7_AggregationCorrect ==
  res.op \in {"dashboard", "export"} => AggregateOK(res.detections, log)

C7_Witness ==
  /\ res.op = "dashboard"
  /\ Len(log) = PriorEvents + 2
  /\ \A i \in DOMAIN log : log[i].user = "u1"
  /\ log[Len(log) - 1].isCompliant
  /\ ~log[Len(log)].isCompliant
  /\ log[Len(log) - 1].createdAt < log[Len(log)].createdAt
  /\ res.detections =
       {[_id |-> "u1", lastIsCompliant |-> FALSE,
         lastAt |-> log[Len(log)].createdAt]}

\* the last inserted of u's events that carry u's greatest createdAt
LastInserted(docs, u) ==
  CHOOSE i \in NewestOf(docs, EventsOf(docs, u)) :
    \A j \in NewestOf(docs, EventsOf(docs, u)) : j <= i

\* C8: every aggregation answered by the dashboard or the export reports,
\* for each subject, the most recently inserted of the subject's events that
\* share its greatest createdAt.
C8_TieMostRecentWins ==
  res.op \in {"dashboard", "export"}
  => \A g \in res.detections :
       /\ g.lastIsCompliant = log[LastInserted(log, g._id)].isCompliant
       /\ g.lastAt = log[LastInserted(log, g._id)].createdAt

RecentOK(h, u, docs) ==
  LET mine == EventsOf(docs, u)
      got == {i \in mine : \E k \in DOMAIN h : h[k] = docs[i]}
  IN /\ Len(h) <= 10
     /\ Len(h) = Min(10, Cardinality(mine))
     /\ \A k \in DOMAIN h : h[k].user = u /\ \E i \in mine : h[k] = docs[i]
     /\ \A k \in 1 .. (Len(h) - 1) : h[k].createdAt > h[k + 1].createdAt
     /\ \A i \in mine \ got :
          \A k \in DOMAIN h : docs[i].createdAt < h[k].createdAt

\* C10: every history answered by GET /detect for a subject holds only that
\* subject's events, min(10, number of its events) of them, those with the
\* greatest createdAt, in descending createdAt; and the same query served
\* again in the next step, with no append between, gives the same sequence.
C10_RecentHistory ==
  [][/\ res'.op = "history" => RecentOK(res'.history, res'.user, log')
     /\ (res.op = "history" /\ res'.op = "history" /\ res'.user = res.user)
          => res'.history = res.history]_vars

C10_Witness ==
  /\ res.op = "history"
  /\ res.user = "u1"
  /\ Cardinality(EventsOf(log, "u1")) > HistoryLimit
  /\ Len(res.history) = HistoryLimit
  /\ Len(log) = PriorEvents + 2
  /\ \A i \in DOMAIN log : log[i].user = "u1"
  /\ res.history[1] = log[Len(log)]
  /\ res.history[2] = log[Len(log) - 1]
  /\ res.history[3] = log[Len(log) - 2]

\* the current status of subject u: isCompliant and createdAt of u's event
\* with the greatest createdAt (none for a subject without events)
StatusOf(docs, u) ==
  {[lastIsCompliant |-> docs[i].isCompliant, lastAt |-> docs[i].createdAt] :
     i \in NewestOf(docs, EventsOf(docs, u))}

\* C11: every step leaves the collection as it was or appends one event to
\* it, so the collection before a step is a prefix of the collection after
\* it; a step that answers a history, a dashboard or an export leaves the
\* collection unchanged; and a subject's current status changes only in a
\* step that appends an event of that subject newer than all its events.
C11_AppendOnly ==
  [][/\ \/ log' = log
        \/ /\ Len(log') = Len(log) + 1
           /\ SubSeq(log', 1, Len(log)) = log
     /\ res'.op \in {"history", "dashboard", "export"} => log' = log
     /\ \A u \in Users :
          (log' # log /\ StatusOf(log', u) # StatusOf(log, u))
          => /\ Len(log') = Len(log) + 1
             /\ log'[Len(log')].user = u
             /\ \A i \in EventsOf(log, u) :
                  log[i].createdAt < log'[Len(log')].createdAt]_vars

C11_Witness ==
  /\ res.op = "export"
  /\ Len(log) = PriorEvents + 2
  /\ log[Len(log) - 1].user = "u1"
  /\ log[Len(log)].user = "u2"
  /\ SubSeq(log, 1, PriorEvents) = PriorLog

\* C12: every export has exactly one row per student, in the order of the
\* students, carrying that student's fields; the row's status is "No Data"
\* when the aggregation has no entry for the student, "Uniform OK" when its
\* entry has lastIsCompliant true and "Not in Uniform" when it has it false;
\* and the csv has the header and one line per row.
C12_ReportProjection ==
  res.op = "export"
  => /\ Len(res.rows) = Len(students)
     /\ Len(res.body) = Len(students) + 1
     /\ \A k \in 1 .. Len(students) :
          LET row == res.rows[k]
              s == students[k]
              info == {g \in res.detections : g._id = s._id}
          IN /\ Len(row) = 7
             /\ <<row[1], row[2], row[3], row[4], row[5]>> =
                  <<s.username, s.email, s.department, s.year, s.division>>
             /\ info = {} => row[6] = <<"No Data">>
             /\ \A g \in info :
                  /\ g.lastIsCompliant => row[6] = <<"Uniform OK">>
                  /\ ~g.lastIsCompliant => row[6] = <<"Not in Uniform">>

C12_Witness ==
  /\ res.op = "export"
  /\ Len(students) = 2
  /\ students[1]._id = "u2"
  /\ students[2]._id = "u1"
  /\ res.detections =
       {[_id |-> "u1", lastIsCompliant |-> FALSE, lastAt |-> -1]}
  /\ res.rows[1][6] = <<"No Data">>
  /\ res.rows[2][6] = <<"Not in Uniform">>

\* a line that is not well-formed delimited text
Malformed == <<>>

\* a reader of one line of delimited text: fields are separated by commas; a
\* field that starts with a quote runs to its closing quote, and inside it
\* two quotes in a row stand for one quote
RECURSIVE ParseFrom(_, _, _, _, _)
ParseFrom(line, i, mode, cur, out) ==
  IF i > Len(line)
  THEN IF mode = "quoted" THEN Malformed ELSE Append(out, cur)
  ELSE LET c == line[i]
       IN CASE mode = "start" ->
                 IF c = QUOTE THEN ParseFrom(line, i + 1, "quoted", <<>>, out)
                 ELSE IF c = COMMA
                 THEN ParseFrom(line, i + 1, "start", <<>>, Append(out, <<>>))
                 ELSE ParseFrom(line, i + 1, "bare", <<c>>, out)
            [] mode = "quoted" ->
                 IF c = QUOTE THEN ParseFrom(line, i + 1, "closing", cur, out)
                 ELSE ParseFrom(line, i + 1, "quoted", Append(cur, c), out)
            [] mode = "closing" ->
                 IF c = QUOTE
                 THEN ParseFrom(line, i + 1, "quoted", Append(cur, QUOTE), out)
                 ELSE IF c = COMMA
                 THEN ParseFrom(line, i + 1, "start", <<>>, Append(out, cur))
                 ELSE Malformed
            [] mode = "bare" ->
                 IF c = COMMA
                 THEN ParseFrom(line, i + 1, "start", <<>>, Append(out, cur))
                 ELSE IF c = QUOTE THEN Malformed
                 ELSE ParseFrom(line, i + 1, "bare", Append(cur, c), out)

ParseLine(line) == ParseFrom(line, 1, "start", <<>>, <<>>)

\* C13: every line of an export reads back as the seven fields it was built
\* from: the header as the seven column names, and the line of each row as
\* the row's seven values, whatever commas or quotes the values hold.
C13_ExportEscaping ==
  res.op = "export"
  => /\ ParseLine(res.body[1]) = [k \in 1 .. 7 |-> <<HeaderFields[k]>>]
     /\ \A k \in 1 .. Len(res.rows) : ParseLine(res.body[k + 1]) = res.rows[k]

\* C14: a request whose image does not decode, or whose inference raises, is
\* answered with an error response and the process stays up: it is never
\* left without an answer, and the process never ends over it.
C14_FailuresAreRejections ==
  \A p \in Procs :
    req[p].pc \in {"decodeError", "inferenceError"}
    => req[p].answer \in {"pending", "error500"}

\* C15: a request whose append the store fails is answered with an error,
\* never with success and never left without an answer, and a read route
\* whose query the store fails answers with an error; the process stays up.
C15_StoreFailuresPropagated ==
  /\ \A p \in Procs :
       req[p].pc = "storeError" => req[p].answer \in {"pending", "error500"}
  /\ res.op = "queryFailed" => res.body = <<"error500">>

\* C16: while the server listens without a loaded model (the load is still
\* running or has failed), the recent history of every subject, the
\* dashboard and the export can be served, what they answer is determined by
\* the collection alone, no classification request gets past the readiness
\* check, and after a failed load the collection never grows.
C16_LoadFailureNotFatal ==
  (alive /\ loader \in {"LOADING", "FAILED"})
  => /\ \A u \in Users : ENABLED GetDetect(u)
     /\ ENABLED Dashboard
     /\ ENABLED Export
     /\ res.op = "history" => RecentOK(res.history, res.user, log)
     /\ res.op \in {"dashboard", "export"} => AggregateOK(res.detections, log)
     /\ \A p \in Procs : req[p].pc \notin {"creating", "created", "ok"}
     /\ loader = "FAILED" => log = PriorLog

C16_Witness ==
  /\ loader = "FAILED"
  /\ res.op = "history"
  /\ res.user = "u1"
  /\ Len(res.history) = PriorEvents
  /\ req[1].pc = "notReady"

\* C17: a label and a confidence are derived only from a vector of the
\* expected length, and from every such vector one of the two labels and
\* one of the vector's entries are derived; a request whose vector has
\* another length ends as an inference error and appends nothing.
C17_DecideTotalAndRejects ==
  \A p \in Procs :
    req[p].pc \in Decided
    => /\ Length(req[p].data) = ExpectedLength
       /\ req[p].label \in {"uniform", "not-uniform"}
       /\ \E i \in DOMAIN req[p].data : req[p].confidence = req[p].data[i]

\* C18: the bytes a request's handler reads and classifies are the bytes
\* that request uploaded: from the end of its upload to the handler's read
\* the file at its path holds its own bytes, and the image its decision was
\* derived from is the image it sent.
C18_RequestIndependence ==
  \A p \in Procs :
    /\ (req[p].pc = "uploading" /\ file[p] # NoUpload)
       => disk[file[p].path] = file[p].sent
    /\ req[p].pc \in Decided => req[p].image = file[p].sent

\* C19: a request is answered with success only in the step after its
\* insert; the step that takes it from the call of Detection.create to the
\* answer's line appends exactly one event, for the request's user, with
\* source "upload" and the request's label and confidence; the request's
\* user, label and confidence stay as they are until the answer; and the
\* answer reports that label and confidence and appends nothing.
C19_OneEventPerSuccess ==
  [][/\ \A p \in Procs :
          /\ (req'[p].pc = "ok" /\ req[p].pc # "ok")
             => /\ req[p].pc = "created"
                /\ req'[p].answer = "json200"
                /\ res'.op = "detected"
                /\ res'.user = req[p].user
                /\ res'.body = <<req[p].label, req[p].confidence>>
                /\ log' = log
          /\ (req'[p].pc = "created" /\ req[p].pc # "created")
             => /\ req[p].pc = "creating"
                /\ Len(log') = Len(log) + 1
                /\ SubSeq(log', 1, Len(log)) = log
                /\ log'[Len(log')].user = req[p].user
                /\ log'[Len(log')].source = "upload"
                /\ log'[Len(log')].label = req[p].label
                /\ log'[Len(log')].confidence = req[p].confidence
                /\ req'[p].user = req[p].user
                /\ req'[p].label = req[p].label
                /\ req'[p].confidence = req[p].confidence
          /\ (req[p].pc = "created" /\ req'[p].pc = "created")
             => req'[p] = req[p]
     /\ res'.op = "detected"
          => \E p \in Procs : req[p].pc = "created" /\ req'[p].pc = "ok"]_vars

C19_Witness ==
  /\ res.op = "detected"
  /\ res.user = "u2"
  /\ Len(log) = PriorEvents + 2
  /\ log[Len(log)].user = "u1"
  /\ log[Len(log) - 1].user = "u2"
  /\ res.body = <<log[Len(log) - 1].label, log[Len(log) - 1].confidence>>
  /\ \E p, q \in Procs : req[p].pc = "ok" /\ req[q].pc = "created"

\* whether the step is answered by the route named: a classification
\* request is accepted, or the read route's answer is sent
Accepted == \E p \in Procs : req[p].pc # "uploading" /\ req'[p].pc = "uploading"

\* C20 as stated: a classification request is accepted, and a recent
\* history served, only for the user the session has logged in and not
\* logged out since; a redirect to /login is sent only while there is no
\* such user and changes neither the collection nor the requests; an event
\* is appended only for a request accepted so; the dashboard and the export
\* are served only if the most recent teacher-login of the session succeeded
\* with no teacher-logout or logout after it, and a redirect to
\* /teacher-login is sent only otherwise.
C20_SessionGatingLastLogin ==
  [][/\ Accepted
          => /\ trail.user # NoUser
             /\ \A p \in Procs :
                  (req[p].pc # "uploading" /\ req'[p].pc = "uploading")
                  => req'[p].user = trail.user
     /\ res'.op = "history" => (trail.user # NoUser /\ res'.user = trail.user)
     /\ res' = Redirect("/login")
          => (trail.user = NoUser /\ log' = log /\ req' = req)
     /\ res'.op \in {"dashboard", "export"} => trail.last = "ok"
     /\ res' = Redirect("/teacher-login")
          => (trail.last # "ok" /\ log' = log /\ req' = req)]_vars

\* C20, amended: as above, but the dashboard and the export are served
\* exactly while some teacher-login of the session has succeeded with no
\* teacher-logout or logout after it, whatever later teacher-login fails;
\* otherwise, and only then, such a request is redirected.
C20_SessionGating ==
  [][/\ Accepted
          => /\ trail.user # NoUser
             /\ \A p \in Procs :
                  (req[p].pc # "uploading" /\ req'[p].pc = "uploading")
                  => req'[p].user = trail.user
     /\ res'.op = "history" => (trail.user # NoUser /\ res'.user = trail.user)
     /\ res' = Redirect("/login")
          => (trail.user = NoUser /\ log' = log /\ req' = req)
     /\ res'.op \in {"dashboard", "export"} => trail.granted
     /\ res' = Redirect("/teacher-login")
          => (~trail.granted /\ log' = log /\ req' = req)
     /\ Listening
          => /\ (trail.user = NoUser) <=> ENABLED RequireLogin
             /\ (~trail.granted) <=> ENABLED RequireTeacher]_vars

C20_Witness ==
  /\ res.op = "dashboard"
  /\ trail.granted
  /\ trail.last = "failed"
  /\ trail.user = "u2"
  /\ Len(log) = 2
  /\ log[1].user = "u1"
  /\ log[2].user = "u2"

====
